---- MODULE Spec2Model ----
(***************************************************************************)
(* SpringRoll Application: the static plugin registry, the plugin          *)
(* lifecycle (preload -> init -> start), the startup promise chain, the    *)
(* listener validation and the container state bridge.                     *)
(***************************************************************************)
EXTENDS Integers, Sequences, FiniteSets, TLC

(* ------------------------------ bounds -------------------------------- *)

\* how many descriptors Application.uses() registers
MaxPlugins == 2
\* how many listeners the host attaches to one Property
MaxListeners == 1
\* a volume v in [0, 1] is held as the integer v * VolumeUnit
VolumeUnit == 2
\* the priorities a descriptor declares: 0..MaxPriority
MaxPriority == 2
\* how many tokens window.location.search holds at most
MaxQuery == 3

\* how many window focus/blur events, and how many playHelp events, arrive
MaxEvents == 1

\* the Applications constructed in the process (they share Application._plugins)
Apps == {"a1", "a2"}

(* --------------------------- program constants ------------------------ *)

pause == "pause"
captionsMuted == "captionsMuted"
soundVolume == "soundVolume"
musicVolume == "musicVolume"
voVolume == "voVolume"
sfxVolume == "sfxVolume"

\* the keys of this.state that carry a Property the claims are about
StateNames ==
  {"ready", pause, captionsMuted, "playOptions",
   soundVolume, musicVolume, voVolume, sfxVolume}
VolumeNames == {soundVolume, musicVolume, voVolume, sfxVolume}

\* the keys of the default feature object
FeatureNames ==
  {"captions", "sound", "vo", "music", "sfx",
   "soundVolume", "musicVolume", "voVolume", "sfxVolume"}

\* a value that may be undefined is <<>> (undefined) or <<v>>
Undefined == <<>>

\* the number 1 (new Property(1), "|| 1") in volume units
One == VolumeUnit

(* ------------------------------ inputs -------------------------------- *)

\* which optional hooks a descriptor exposes
HookShapes ==
  { [preload |-> TRUE,  init |-> TRUE,  start |-> TRUE],
    [preload |-> FALSE, init |-> TRUE,  start |-> TRUE],
    [preload |-> TRUE,  init |-> FALSE, start |-> TRUE],
    [preload |-> TRUE,  init |-> TRUE,  start |-> FALSE] }

\* the descriptor of that shape declaring that priority
WithPriority(shape, priority) ==
  [preload |-> shape.preload, init |-> shape.init, start |-> shape.start,
   priority |-> priority]

\* the descriptors handed to uses()
Priorities == 0..MaxPriority
Descriptors == {WithPriority(shape, 0) : shape \in HookShapes}
\* the descriptors with every hook
FullDescriptors == {d \in Descriptors : d.preload /\ d.init /\ d.start}
PrioritisedDescriptors ==
  {WithPriority(shape, priority) : shape \in HookShapes, priority \in Priorities}

\* How a host sets an Application up: the flags that are true in the
\* config.features object it hands to the constructor, and the channels it
\* subscribes to right after construction.
\* the config.features object whose flags S are true, the others absent
Flags(S) == [k \in S |-> TRUE]

FeatureInputs == { Flags({}), Flags({"vo"}), Flags({"captions", "sound"}) }
ListenerInputs == { {}, {pause}, {pause, captionsMuted, soundVolume, voVolume} }

\* the host subscribes once to each channel of S
Once(S) == [n \in S |-> 1]

HostSetups == [features : FeatureInputs, subs : {Once(S) : S \in ListenerInputs}]

\* config.hintPlayer: TRUE for a hint player (the default), FALSE for null
HintPlayers == BOOLEAN

\* the setup of the hosts that construct several Applications
PlainSetup == [features |-> Flags({}), subs |-> Once({pause}), hintPlayer |-> TRUE]

\* every setup as far as validateListeners can tell them apart
CheckedFlags == {"captions", "sound", "music", "vo", "sfx"}
CheckedNames == {captionsMuted, soundVolume, musicVolume, voVolume, sfxVolume, pause}
AllFeatureInputs == {Flags(S) : S \in SUBSET CheckedFlags}

\* every config.features object: each flag true, false or absent
AllFeatureObjects == UNION {[S -> BOOLEAN] : S \in SUBSET FeatureNames}
AllListenerInputs == [CheckedNames -> 0..MaxListeners]

\* the payloads of the volume events: 0, 1/VolumeUnit, ..., 1
Volumes == 0..VolumeUnit

\* JSON values: an object with num keys, or the number num
Obj(num) == [kind |-> "object", num |-> num]
Num(num) == [kind |-> "number", num |-> num]

\* window.location.search, as a sequence of tokens: "K" is the text
\* "playOptions=", "%G" a percent sign that starts no escape sequence,
\* "%7B" and "%7D" the escapes of the braces
QueryTokens == {"K", "&", "$", "=", "%G", "%7B", "%7D", "{", "}", "1"}
Queries == UNION {[1..n -> QueryTokens] : n \in 0..MaxQuery}
NoQuery == <<>>

\* what the container answers to fetch('playOptions')
FetchPayloads == {Obj(0), Obj(1)}

\* The setters a Property of the build may have. The spec leaves open
\* whether an assignment keeps the value it replaces and whether assigning
\* the value already held does anything: "plain" only stores the value,
\* "storing" also keeps the replaced value as the previous one, and
\* "storingChanges" does so unless the value assigned is the one held.
Setters == {"plain", "storing", "storingChanges"}

\* plugin names: a descriptor is named by the ordinal of its uses() call
PluginNames == 1..MaxPlugins

VARIABLES
  _plugins,       \* Application._plugins: the static registry, a sequence of names
  descr,          \* name -> the hooks of the descriptor handed to uses()
  preloadFailed,  \* name -> the descriptor's preloadFailed flag
  pc,             \* app -> position of its startup
  regAt,          \* app -> Application._plugins when its constructor ran
  doneAt,         \* app -> the apps whose setupPlugins had settled when it was constructed
  preloads,       \* app -> the preloads array of setupPlugins: [plugin, st] per index
  remaining,      \* app -> Application._plugins right after its preload-failure filter
  setup,          \* app -> state of the promise setupPlugins returned
  calls,          \* app -> the hook invocations made for it, in order
  features,       \* app -> this.features (the set of flags that are true)
  state,          \* app -> this.state: name -> Property
  sent,           \* app -> what it sent through the container, in order
  warnings,       \* app -> what it logged with Debugger.log('warn', ...), in order
  query,          \* app -> window.location.search when its constructor ran
  config,         \* app -> the config.features object handed to its constructor
  fetching,       \* app -> the one-shot fetch('playOptions'): "none", "pending", "answered"
  setter,         \* which of the Setters the Property class of the build has
  rejection,      \* app -> the error its chain carries to the next catch: <<>> or <<e>>
  hints           \* app -> this.hints: player (FALSE: null), played (calls of play())

vars ==
  << _plugins, descr, preloadFailed, pc, regAt, doneAt, preloads, remaining,
     setup, calls, features, state, sent, warnings, query, config, fetching,
     setter, rejection, hints >>

(* --------------------------- Property ---------------------------------- *)

\* new Property(value)
NewProperty(v) == [value |-> v, previousValue |-> Undefined, listeners |-> 0]

\* set value(v), with the setter of the build
SetValue(p, v) ==
  CASE setter = "plain" -> [p EXCEPT !.value = v]
    [] setter = "storing" -> [p EXCEPT !.previousValue = <<p.value>>, !.value = v]
    [] setter = "storingChanges" ->
         IF p.value = v THEN p
         ELSE [p EXCEPT !.previousValue = <<p.value>>, !.value = v]

\* get hasListeners
hasListeners(p) == p.listeners > 0

\* subscribe(listener), n times
Subscribe(p, n) == [p EXCEPT !.listeners = p.listeners + n]

(* --------------------------- constructor ------------------------------- *)

\* this.state = {...}
InitialState ==
  [n \in StateNames |->
     IF n \in VolumeNames THEN NewProperty(One)
     ELSE IF n = "playOptions" THEN NewProperty(Obj(0))
     ELSE IF n = captionsMuted THEN NewProperty(TRUE)
     ELSE NewProperty(FALSE)]

\* Features whose sound flag is left as the host gave it.
EffectiveFeaturesUnforced(input) ==
  {k \in FeatureNames : k \in DOMAIN input /\ input[k]}

\* this.features, as the set of its flags that are true. input: the
\* config.features object, a function from some flags to booleans.
\* Object.assign(defaults, features || {}), then sound forced by vo, music, sfx.
EffectiveFeatures(input) ==
  LET assigned == [k \in FeatureNames |-> IF k \in DOMAIN input THEN input[k] ELSE FALSE]
      forced == IF assigned["vo"] \/ assigned["music"] \/ assigned["sfx"]
                THEN [assigned EXCEPT !["sound"] = TRUE]
                ELSE assigned
  IN  {k \in FeatureNames : forced[k]}

(* --------------------------- registry ---------------------------------- *)

NotFound == 0

\* Application.getPlugin(name): the first descriptor of that name
getPlugin(name) ==
  IF \E i \in 1..Len(_plugins) : _plugins[i] = name THEN name ELSE NotFound

(* --------------------------- setupPlugins ------------------------------ *)

\* One invocation of a hook. threw: the hook raised.
Call(hook, plugin, threw) == [hook |-> hook, plugin |-> plugin, threw |-> threw]

\* The preload loop from index i: the plugins whose preload is invoked, and
\* whether the loop hit "return" at a descriptor without a preload hook.
RECURSIVE PreloadLoop(_, _)
PreloadLoop(reg, i) ==
  IF i > Len(reg) THEN [launched |-> <<>>, returned |-> FALSE]
  ELSE IF ~descr[reg[i]].preload THEN [launched |-> <<>>, returned |-> TRUE]
  ELSE LET rest == PreloadLoop(reg, i + 1)
       IN  [launched |-> <<reg[i]>> \o rest.launched, returned |-> rest.returned]

\* A barrier that opens at the first settled element instead of the last.
PromiseFirst(ps) ==
  IF \E i \in 1..Len(ps) : ps[i].st = "handlerThrew" THEN "rejected"
  ELSE IF Len(ps) = 0 \/ \E i \in 1..Len(ps) : ps[i].st \in {"resolved", "caught"}
       THEN "fulfilled"
  ELSE "pending"

\* Promise.all(preloads): rejected as soon as one element is rejected,
\* fulfilled once every element is fulfilled. An element is the preload
\* promise with preloadFail attached: "resolved" (preload resolved), "caught"
\* (preload rejected, preloadFail returned), "handlerThrew" (preloadFail raised).
PromiseAll(ps) ==
  IF \E i \in 1..Len(ps) : ps[i].st = "handlerThrew" THEN "rejected"
  ELSE IF \A i \in 1..Len(ps) : ps[i].st \in {"resolved", "caught"} THEN "fulfilled"
  ELSE "pending"

\* Application._plugins.filter(plugin => plugin.preloadFailed !== true)
FilterFailed(reg) == SelectSeq(reg, LAMBDA p : ~preloadFailed[p])

\* A hook loop that isolates a raising hook and goes on with the next one.
RECURSIVE HookLoopIsolated(_, _, _, _)
HookLoopIsolated(reg, i, hook, thrower) ==
  IF i > Len(reg) THEN [calls |-> <<>>, status |-> "completed"]
  ELSE IF ~descr[reg[i]][hook] THEN [calls |-> <<>>, status |-> "returned"]
  ELSE LET rest == HookLoopIsolated(reg, i + 1, hook, thrower)
       IN  [calls |-> <<Call(hook, reg[i], thrower = <<hook, reg[i]>>)>> \o rest.calls,
            status |-> rest.status]

\* One of the two for loops of the then callback, from index i, for the hook
\* "init" or "start". thrower: the invocation that raises, if it is reached.
\* status: "completed" (loop ran off the end), "returned" (the return at a
\* descriptor without the hook), "threw".
RECURSIVE HookLoop(_, _, _, _)
HookLoop(reg, i, hook, thrower) ==
  IF i > Len(reg) THEN [calls |-> <<>>, status |-> "completed"]
  ELSE IF ~descr[reg[i]][hook] THEN [calls |-> <<>>, status |-> "returned"]
  ELSE IF thrower = <<hook, reg[i]>>
       THEN [calls |-> <<Call(hook, reg[i], TRUE)>>, status |-> "threw"]
  ELSE LET rest == HookLoop(reg, i + 1, hook, thrower)
       IN  [calls |-> <<Call(hook, reg[i], FALSE)>> \o rest.calls,
            status |-> rest.status]

\* The body of the then callback after the filter: the init loop, then, unless
\* the callback has returned or raised, the start loop.
InitAndStart(reg, thrower) ==
  LET init == HookLoop(reg, 1, "init", thrower)
      start == HookLoop(reg, 1, "start", thrower)
  IN  IF init.status = "completed"
      THEN [calls |-> init.calls \o start.calls, status |-> start.status]
      ELSE init

(* --------------------------- validateListeners ------------------------- *)

\* Object.keys(featureToStateMap), in insertion order
featureKeys == <<"captions", "sound", "music", "vo", "sfx">>

featureToStateMap ==
  [k \in {"captions", "sound", "music", "vo", "sfx"} |->
     CASE k = "captions" -> captionsMuted
       [] k = "sound" -> soundVolume
       [] k = "music" -> musicVolume
       [] k = "vo" -> voVolume
       [] k = "sfx" -> sfxVolume]

\* the for loop over keys from index i: the state names pushed
RECURSIVE MissingFrom(_, _, _)
MissingFrom(feats, st, i) ==
  IF i > Len(featureKeys) THEN <<>>
  ELSE LET stateName == featureToStateMap[featureKeys[i]]
           rest == MissingFrom(feats, st, i + 1)
       IN  IF featureKeys[i] \in feats /\ ~hasListeners(st[stateName])
           THEN <<stateName>> \o rest
           ELSE rest

\* A validator that raises at the first missing channel.
validateListenersFailFast(feats, st) ==
  LET fromFeatures == MissingFrom(feats, st, 1)
      missing == IF Len(fromFeatures) > 0 THEN <<fromFeatures[1]>>
                 ELSE IF ~hasListeners(st[pause]) THEN <<pause>>
                 ELSE <<>>
  IN  [threw |-> Len(missing) > 0, missing |-> missing]

\* validateListeners(): missing is missingListeners when the function ends;
\* threw: it raised the Error whose message joins missing
validateListeners(feats, st) ==
  LET fromFeatures == MissingFrom(feats, st, 1)
      missing == IF ~hasListeners(st[pause])
                 THEN Append(fromFeatures, pause)
                 ELSE fromFeatures
  IN  [threw |-> Len(missing) > 0, missing |-> missing]

(* --------------------------- state bridge ------------------------------ *)

\* the events whose payload is copied to the Property of the same name
events == <<soundVolume, musicVolume, voVolume, sfxVolume, captionsMuted, pause>>

\* mute event -> the volume Property it drives
legacyListeners ==
  [m \in {"soundMuted", "musicMuted", "voMuted", "sfxMuted"} |->
     CASE m = "soundMuted" -> soundVolume
       [] m = "musicMuted" -> musicVolume
       [] m = "voMuted" -> voVolume
       [] m = "sfxMuted" -> sfxVolume]

\* x || 1 for a Property's _previousValue: undefined and 0 are falsy
OrOne(pv) == IF pv = Undefined \/ pv = <<0>> THEN One ELSE pv[1]

\* the listener of a legacy mute event, on the Property it drives
legacyMute(p, data) ==
  LET previousValue == OrOne(p.previousValue)
      captured == [p EXCEPT !.previousValue = <<p.value>>]
  IN  SetValue(captured, IF data THEN 0 ELSE previousValue)

(* --------------------------- initial state ----------------------------- *)

NoFilter == [ran |-> FALSE, reg |-> <<>>]

Init ==
  /\ _plugins = <<>>
  /\ descr = <<>>
  /\ preloadFailed = <<>>
  /\ pc = [a \in Apps |-> "new"]
  /\ regAt = [a \in Apps |-> <<>>]
  /\ doneAt = [a \in Apps |-> {}]
  /\ preloads = [a \in Apps |-> <<>>]
  /\ remaining = [a \in Apps |-> NoFilter]
  /\ setup = [a \in Apps |-> "none"]
  /\ calls = [a \in Apps |-> <<>>]
  /\ features = [a \in Apps |-> {}]
  /\ state = [a \in Apps |-> InitialState]
  /\ sent = [a \in Apps |-> <<>>]
  /\ warnings = [a \in Apps |-> <<>>]
  /\ query = [a \in Apps |-> NoQuery]
  /\ config = [a \in Apps |-> Flags({})]
  /\ fetching = [a \in Apps |-> "none"]
  /\ setter \in Setters
  /\ rejection = [a \in Apps |-> <<>>]
  /\ hints = [a \in Apps |-> [player |-> TRUE, played |-> 0]]

(* --------------------------- actions ----------------------------------- *)

\* the promise setupPlugins returned to a has settled
Settled(a) == pc[a] \in {"catchSetup", "validate", "catchValidate", "announce", "done"}

\* Application.uses(plugin), at any time, once per descriptor
Uses(plugin) ==
  /\ Len(descr) < MaxPlugins
  /\ _plugins' = Append(_plugins, Len(descr) + 1)
  /\ descr' = Append(descr, plugin)
  /\ preloadFailed' = Append(preloadFailed, FALSE)
  /\ UNCHANGED << pc, regAt, doneAt, preloads, remaining, setup, calls,
                  features, state, sent, warnings,
                  query, config, fetching, setter, rejection, hints >>

\* /playOptions=[^&$]*/.exec(search): where the match starts, 0 for null
matchStart(search) ==
  IF \E i \in 1..Len(search) : search[i] = "K"
  THEN CHOOSE i \in 1..Len(search) :
         search[i] = "K" /\ \A j \in 1..(i - 1) : search[j] # "K"
  ELSE 0

\* matchedToken.split('=')[1], read from index i: the match runs up to the
\* next "&" or "$", and its second piece up to the next "=". A later
\* "playOptions=" leaves its letters ("p") before its "=".
RECURSIVE rawValue(_, _)
rawValue(search, i) ==
  IF i > Len(search) \/ search[i] \in {"&", "$", "="} THEN <<>>
  ELSE IF search[i] = "K" THEN <<"p">>
  ELSE <<search[i]>> \o rawValue(search, i + 1)

\* decodeURIComponent(raw): raises a URIError at a malformed escape
decodeURIComponent(raw) ==
  IF \E i \in 1..Len(raw) : raw[i] = "%G"
  THEN [threw |-> TRUE, value |-> <<>>]
  ELSE [threw |-> FALSE,
        value |-> [i \in 1..Len(raw) |->
                     CASE raw[i] = "%7B" -> "{"
                       [] raw[i] = "%7D" -> "}"
                       [] OTHER -> raw[i]]]

\* the number written with n digits 1
RECURSIVE Ones(_)
Ones(n) == IF n = 0 THEN 0 ELSE 10 * Ones(n - 1) + 1

\* JSON.parse(text): over these tokens the JSON texts are "{}" and the
\* numbers 1, 11, ...; anything else raises a SyntaxError
JSONparse(text) ==
  IF text = <<"{", "}">> THEN [threw |-> FALSE, value |-> Obj(0)]
  ELSE IF Len(text) > 0 /\ \A i \in 1..Len(text) : text[i] = "1"
       THEN [threw |-> FALSE, value |-> Num(Ones(Len(text)))]
  ELSE [threw |-> TRUE, value |-> Obj(0)]

\* The play options of the query string: raised (the URIError leaves the
\* constructor), warned (the parse failure is logged), set (the value parsed)
queryPlayOptions(search) ==
  LET m == matchStart(search)
      decoded == decodeURIComponent(rawValue(search, m + 1))
      parsed == JSONparse(decoded.value)
  IN  IF m = 0 THEN [raised |-> FALSE, warned |-> FALSE, set |-> FALSE, value |-> Obj(0)]
      ELSE IF decoded.threw
           THEN [raised |-> TRUE, warned |-> FALSE, set |-> FALSE, value |-> Obj(0)]
      ELSE IF parsed.threw
           THEN [raised |-> FALSE, warned |-> TRUE, set |-> FALSE, value |-> Obj(0)]
      ELSE [raised |-> FALSE, warned |-> FALSE, set |-> TRUE, value |-> parsed.value]

\* this.state after the constructor, with the host's subs[n] listeners on
\* the Property n
ConstructedState(q, subs) ==
  [m \in StateNames |->
     LET p == IF m = "playOptions" /\ q.set
              THEN SetValue(InitialState[m], q.value)
              ELSE InitialState[m]
     IN  IF m \in DOMAIN subs THEN Subscribe(p, subs[m]) ELSE p]

\* new Application({features: input, hintPlayer}) with
\* window.location.search = search,
\* then the host subscribing subs[n] listeners to the Property n.
\* The Applications are named in the order they are constructed.
\* A URIError of decodeURIComponent leaves the constructor before the fetch
\* and setupPlugins(); setupPlugins() returning undefined makes ".catch" raise
\* out of the constructor after them. Either way the host gets no Application
\* and the playHelp listener is not registered, while the listeners of the
\* container events and of the window, registered before, stay.
Construct(a, input, subs, search, hintPlayer) ==
  LET q == queryPlayOptions(search)
      loop == IF q.raised
              THEN [launched |-> <<>>, returned |-> FALSE]
              ELSE PreloadLoop(_plugins, 1)
      n == Len(loop.launched)
  IN
  /\ pc[a] = "new"
  /\ a = "a2" => pc["a1"] # "new"
  /\ query' = [query EXCEPT ![a] = search]
  /\ config' = [config EXCEPT ![a] = input]
  /\ features' = [features EXCEPT ![a] = EffectiveFeatures(input)]
  /\ sent' = [sent EXCEPT ![a] =
       << [event |-> "connect", data |-> {}],
          [event |-> "features", data |-> EffectiveFeatures(input)],
          [event |-> "keepFocus", data |-> {FALSE}] >>]
  /\ warnings' = [warnings EXCEPT ![a] =
       IF q.warned THEN <<[from |-> "playOptions", missing |-> <<>>]>> ELSE <<>>]
  /\ fetching' = [fetching EXCEPT ![a] = IF q.raised THEN "none" ELSE "pending"]
  /\ regAt' = [regAt EXCEPT ![a] = _plugins]
  /\ doneAt' = [doneAt EXCEPT ![a] = {b \in Apps : Settled(b)}]
  /\ preloads' = [preloads EXCEPT ![a] =
       [i \in 1..n |-> [plugin |-> loop.launched[i], st |-> "pending"]]]
  /\ calls' = [calls EXCEPT ![a] =
       [i \in 1..n |-> Call("preload", loop.launched[i], FALSE)]]
  /\ IF q.raised
     THEN /\ pc' = [pc EXCEPT ![a] = "crashed"]
          /\ setup' = [setup EXCEPT ![a] = "none"]
          /\ state' = [state EXCEPT ![a] = InitialState]
     ELSE IF loop.returned
     THEN /\ pc' = [pc EXCEPT ![a] = "crashed"]
          /\ setup' = [setup EXCEPT ![a] = "undefined"]
          /\ state' = [state EXCEPT ![a] = ConstructedState(q, <<>>)]
     ELSE /\ pc' = [pc EXCEPT ![a] = "setup"]
          /\ setup' = [setup EXCEPT ![a] = "pending"]
          /\ state' = [state EXCEPT ![a] = ConstructedState(q, subs)]
  /\ hints' = [hints EXCEPT ![a] =
       IF q.raised \/ loop.returned THEN @ ELSE [player |-> hintPlayer, played |-> 0]]
  /\ UNCHANGED << _plugins, descr, preloadFailed, remaining, setter, rejection >>

\* A fetch whose answer yields to a value the query string has set.
FetchResponseGuarded(a, data) ==
  /\ fetching[a] = "pending"
  /\ fetching' = [fetching EXCEPT ![a] = "answered"]
  /\ state' = [state EXCEPT ![a]["playOptions"] =
                  IF queryPlayOptions(query[a]).set THEN @ ELSE SetValue(@, data)]
  /\ UNCHANGED << _plugins, descr, preloadFailed, pc, regAt, doneAt, preloads,
                  remaining, setup, calls, features, sent, warnings, query,
                  config, setter, rejection, hints >>

\* the container answers the fetch('playOptions') of the constructor
FetchResponse(a, data) ==
  /\ fetching[a] = "pending"
  /\ fetching' = [fetching EXCEPT ![a] = "answered"]
  /\ state' = [state EXCEPT ![a]["playOptions"] = SetValue(@, data)]
  /\ UNCHANGED << _plugins, descr, preloadFailed, pc, regAt, doneAt, preloads,
                  remaining, setup, calls, features, sent, warnings, query,
                  config, setter, rejection, hints >>

\* A preload hook returns a promise (setupPlugins calls .catch on what it
\* returns); the promise settles later, in its own task.
\* The preload promise at index i of the app's preloads resolves.
PreloadResolve(a, i) ==
  /\ i \in 1..Len(preloads[a])
  /\ preloads[a][i].st = "pending"
  /\ preloads' = [preloads EXCEPT ![a][i].st = "resolved"]
  /\ UNCHANGED << _plugins, descr, preloadFailed, pc, regAt, doneAt, remaining,
                  setup, calls, features, state, sent, warnings,
                  query, config, fetching, setter, rejection, hints >>

\* the preload promise at index i rejects and preloadFail runs:
\* Application._plugins[i] is the registry's element at that index now
PreloadReject(a, i) ==
  /\ i \in 1..Len(preloads[a])
  /\ preloads[a][i].st = "pending"
  /\ IF i <= Len(_plugins)
     THEN /\ preloadFailed' = [preloadFailed EXCEPT ![_plugins[i]] = TRUE]
          /\ preloads' = [preloads EXCEPT ![a][i].st = "caught"]
     ELSE /\ preloadFailed' = preloadFailed
          /\ preloads' = [preloads EXCEPT ![a][i].st = "handlerThrew"]
  /\ UNCHANGED << _plugins, descr, pc, regAt, doneAt, remaining, setup, calls,
                  features, state, sent, warnings,
                  query, config, fetching, setter, rejection, hints >>

\* who may raise in the then callback: nobody, or one init or start hook
Throwers == {<<>>} \cup ({"init", "start"} \X PluginNames)

\* Promise.all fulfilled: the job of the then callback (filter, init, start).
\* A raising hook rejects the promise setupPlugins returned.
SetupThen(a, thrower) ==
  LET reg == FilterFailed(_plugins)
      run == InitAndStart(reg, thrower)
  IN
  /\ pc[a] = "setup"
  /\ PromiseAll(preloads[a]) = "fulfilled"
  /\ _plugins' = reg
  /\ remaining' = [remaining EXCEPT ![a] = [ran |-> TRUE, reg |-> reg]]
  /\ calls' = [calls EXCEPT ![a] = @ \o run.calls]
  /\ IF run.status = "threw"
     THEN /\ setup' = [setup EXCEPT ![a] = "rejected"]
          /\ rejection' = [rejection EXCEPT ![a] =
               <<[from |-> "setupPlugins", missing |-> <<>>]>>]
     ELSE /\ setup' = [setup EXCEPT ![a] = "resolved"]
          /\ rejection' = rejection
  /\ pc' = [pc EXCEPT ![a] = "catchSetup"]
  /\ UNCHANGED << descr, preloadFailed, regAt, doneAt, preloads, features,
                  state, sent, warnings,
                  query, config, fetching, setter, hints >>

\* Promise.all rejected (preloadFail raised): the then callback is skipped
\* and the promise setupPlugins returned is rejected
SetupRejected(a) ==
  /\ pc[a] = "setup"
  /\ PromiseAll(preloads[a]) = "rejected"
  /\ setup' = [setup EXCEPT ![a] = "rejected"]
  /\ rejection' = [rejection EXCEPT ![a] =
       <<[from |-> "setupPlugins", missing |-> <<>>]>>]
  /\ pc' = [pc EXCEPT ![a] = "catchSetup"]
  /\ UNCHANGED << _plugins, descr, preloadFailed, regAt, doneAt, preloads,
                  remaining, calls, features, state, sent, warnings,
                  query, config, fetching, setter, hints >>

\* the job of the first catch of the chain: .catch(e => Debugger.log('warn', e))
CatchSetup(a) ==
  /\ pc[a] = "catchSetup"
  /\ warnings' = [warnings EXCEPT ![a] = @ \o rejection[a]]
  /\ rejection' = [rejection EXCEPT ![a] = <<>>]
  /\ pc' = [pc EXCEPT ![a] = "validate"]
  /\ UNCHANGED << _plugins, descr, preloadFailed, regAt, doneAt, preloads,
                  remaining, setup, calls, features, state, sent,
                  query, config, fetching, setter, hints >>

\* the job of .then(() => this.validateListeners())
Validate(a) ==
  LET r == validateListeners(features[a], state[a])
  IN
  /\ pc[a] = "validate"
  /\ rejection' = [rejection EXCEPT ![a] =
       IF r.threw
       THEN <<[from |-> "validateListeners", missing |-> r.missing]>>
       ELSE <<>>]
  /\ pc' = [pc EXCEPT ![a] = "catchValidate"]
  /\ UNCHANGED << _plugins, descr, preloadFailed, regAt, doneAt, preloads,
                  remaining, setup, calls, features, state, sent, warnings,
                  query, config, fetching, setter, hints >>

\* A catch after validateListeners that announces the Application itself.
CatchValidateAnnouncing(a) ==
  /\ pc[a] = "catchValidate"
  /\ warnings' = [warnings EXCEPT ![a] = @ \o rejection[a]]
  /\ sent' = [sent EXCEPT ![a] =
       IF rejection[a] # <<>> THEN Append(@, [event |-> "loaded", data |-> {}]) ELSE @]
  /\ rejection' = [rejection EXCEPT ![a] = <<>>]
  /\ pc' = [pc EXCEPT ![a] = "announce"]
  /\ UNCHANGED << _plugins, descr, preloadFailed, regAt, doneAt, preloads,
                  remaining, setup, calls, features, state,
                  query, config, fetching, setter, hints >>

\* the job of the second catch of the chain
CatchValidate(a) ==
  /\ pc[a] = "catchValidate"
  /\ warnings' = [warnings EXCEPT ![a] = @ \o rejection[a]]
  /\ rejection' = [rejection EXCEPT ![a] = <<>>]
  /\ pc' = [pc EXCEPT ![a] = "announce"]
  /\ UNCHANGED << _plugins, descr, preloadFailed, regAt, doneAt, preloads,
                  remaining, setup, calls, features, state, sent,
                  query, config, fetching, setter, hints >>

\* .then(() => { send('loaded'); ready.value = true })
Announce(a) ==
  /\ pc[a] = "announce"
  /\ sent' = [sent EXCEPT ![a] = Append(@, [event |-> "loaded", data |-> {}])]
  /\ state' = [state EXCEPT ![a]["ready"] = SetValue(@, TRUE)]
  /\ pc' = [pc EXCEPT ![a] = "done"]
  /\ UNCHANGED << _plugins, descr, preloadFailed, regAt, doneAt, preloads,
                  remaining, setup, calls, features, warnings,
                  query, config, fetching, setter, rejection, hints >>

\* the container delivers one of the events of the same name as a Property
\* A listener that keeps a muted volume at 0 and remembers the new volume.
InboundKeepingMute(a, name, data) ==
  /\ pc[a] # "new"
  /\ \E i \in 1..Len(events) : events[i] = name
  /\ state' = [state EXCEPT ![a][name] =
                  IF name \in VolumeNames /\ @.value = 0 /\ @.previousValue # Undefined
                  THEN [@ EXCEPT !.previousValue = <<data>>]
                  ELSE SetValue(@, data)]
  /\ UNCHANGED << _plugins, descr, preloadFailed, pc, regAt, doneAt, preloads,
                  remaining, setup, calls, features, sent, warnings,
                  query, config, fetching, setter, rejection, hints >>

\* the container delivers one of the events: property.value = containerEvent.data
Inbound(a, name, data) ==
  /\ pc[a] # "new"
  /\ \E i \in 1..Len(events) : events[i] = name
  /\ state' = [state EXCEPT ![a][name] = SetValue(@, data)]
  /\ UNCHANGED << _plugins, descr, preloadFailed, pc, regAt, doneAt, preloads,
                  remaining, setup, calls, features, sent, warnings,
                  query, config, fetching, setter, rejection, hints >>

\* A soundMuted that drives every channel, the other events their own.
InboundMuteMaster(a, mute, data) ==
  /\ pc[a] # "new"
  /\ state' = [state EXCEPT ![a] =
                  [n \in StateNames |->
                     IF n = legacyListeners[mute] \/ (mute = "soundMuted" /\ n \in VolumeNames)
                     THEN legacyMute(@[n], data)
                     ELSE @[n]]]
  /\ UNCHANGED << _plugins, descr, preloadFailed, pc, regAt, doneAt, preloads,
                  remaining, setup, calls, features, sent, warnings,
                  query, config, fetching, setter, rejection, hints >>

\* the container delivers a legacy mute event
InboundMute(a, mute, data) ==
  /\ pc[a] # "new"
  /\ state' = [state EXCEPT ![a][legacyListeners[mute]] = legacyMute(@, data)]
  /\ UNCHANGED << _plugins, descr, preloadFailed, pc, regAt, doneAt, preloads,
                  remaining, setup, calls, features, sent, warnings,
                  query, config, fetching, setter, rejection, hints >>

\* how many 'focus' messages a has sent
FocusCount(a) == Cardinality({i \in 1..Len(sent[a]) : sent[a][i].event = "focus"})

\* how many playHelp events have reached the listener of a
HelpCount(a) ==
  hints[a].played
  + Cardinality({i \in 1..Len(warnings[a]) : warnings[a][i].from = "playHelp"})

\* The window gets a focus (focused) or blur event: the listener of every
\* Application constructed so far sends 'focus', in the order of construction.
WindowFocus(focused) ==
  /\ \E a \in Apps : pc[a] # "new"
  /\ \A a \in Apps : FocusCount(a) < MaxEvents
  /\ sent' = [a \in Apps |->
       IF pc[a] # "new"
       THEN Append(sent[a], [event |-> "focus", data |-> {focused}])
       ELSE sent[a]]
  /\ UNCHANGED << _plugins, descr, preloadFailed, pc, regAt, doneAt, preloads,
                  remaining, setup, calls, features, state, warnings,
                  query, config, fetching, setter, rejection, hints >>

\* the container delivers playHelp: hints.play(), or a warning without hints
PlayHelp(a) ==
  /\ pc[a] \notin {"new", "crashed"}
  /\ HelpCount(a) < MaxEvents
  /\ IF hints[a].player
     THEN /\ hints' = [hints EXCEPT ![a].played = @ + 1]
          /\ warnings' = warnings
     ELSE /\ hints' = hints
          /\ warnings' = [warnings EXCEPT ![a] =
               Append(@, [from |-> "playHelp", missing |-> <<>>])]
  /\ UNCHANGED << _plugins, descr, preloadFailed, pc, regAt, doneAt, preloads,
                  remaining, setup, calls, features, state, sent,
                  query, config, fetching, setter, rejection >>

Range(f) == {f[i] : i \in DOMAIN f}

\* The payloads of the inbound events: every volume for the sound channel,
\* 0 and 1 for the other channels, the booleans for captionsMuted and pause.
InboundPayloads(name) ==
  CASE name = soundVolume -> Volumes
    [] name \in VolumeNames \ {soundVolume} -> {0, One}
    [] OTHER -> BOOLEAN

\* Two Applications sharing the registry, the plugins having every hook.
Next ==
  \/ \E plugin \in FullDescriptors : Uses(plugin)
  \/ \E a \in Apps : Construct(a, PlainSetup.features, PlainSetup.subs, NoQuery, PlainSetup.hintPlayer)
  \/ \E a \in Apps, i \in 1..MaxPlugins : PreloadResolve(a, i)
  \/ \E a \in Apps, i \in 1..MaxPlugins : PreloadReject(a, i)
  \/ \E a \in Apps, thrower \in Throwers : SetupThen(a, thrower)
  \/ \E a \in Apps : SetupRejected(a)
  \/ \E a \in Apps : CatchSetup(a)
  \/ \E a \in Apps : Validate(a)
  \/ \E a \in Apps : CatchValidate(a)
  \/ \E a \in Apps : Announce(a)

Spec == Init /\ [][Next]_vars

\* One Application in the process, set up by its host in every way. With
\* nothing else filtering the registry, preloadFail always finds its descriptor.
NextStartup ==
  \/ \E plugin \in Descriptors : Uses(plugin)
  \/ \E h \in HostSetups : Construct("a1", h.features, h.subs, NoQuery, PlainSetup.hintPlayer)
  \/ \E i \in 1..MaxPlugins : PreloadResolve("a1", i)
  \/ \E i \in 1..MaxPlugins : PreloadReject("a1", i)
  \/ \E thrower \in Throwers : SetupThen("a1", thrower)
  \/ CatchSetup("a1")
  \/ Validate("a1")
  \/ CatchValidate("a1")
  \/ Announce("a1")

SpecStartup == Init /\ [][NextStartup]_vars

\* The startup of one Application with pause, playHelp and window focus
\* events arriving at every stage.
NextLifecycle ==
  \/ \E plugin \in FullDescriptors : Uses(plugin)
  \/ \E S \in {{}, {pause}}, hintPlayer \in HintPlayers :
       Construct("a1", PlainSetup.features, Once(S), NoQuery, hintPlayer)
  \/ \E i \in 1..MaxPlugins : PreloadResolve("a1", i)
  \/ \E i \in 1..MaxPlugins : PreloadReject("a1", i)
  \/ \E thrower \in Throwers : SetupThen("a1", thrower)
  \/ CatchSetup("a1")
  \/ Validate("a1")
  \/ CatchValidate("a1")
  \/ Announce("a1")
  \/ \E data \in BOOLEAN : Inbound("a1", pause, data)
  \/ \E focused \in BOOLEAN : WindowFocus(focused)
  \/ PlayHelp("a1")

SpecLifecycle == Init /\ [][NextLifecycle]_vars

\* One Application and descriptors of every priority.
NextRegistry ==
  \/ \E plugin \in PrioritisedDescriptors : Uses(plugin)
  \/ Construct("a1", PlainSetup.features, PlainSetup.subs, NoQuery, PlainSetup.hintPlayer)
  \/ \E i \in 1..MaxPlugins : PreloadResolve("a1", i)
  \/ \E i \in 1..MaxPlugins : PreloadReject("a1", i)
  \/ SetupThen("a1", <<>>)
  \/ CatchSetup("a1")
  \/ Validate("a1")
  \/ CatchValidate("a1")
  \/ Announce("a1")

SpecRegistry == Init /\ [][NextRegistry]_vars

\* One Application, no plugin, every query string and the answer to the fetch.
NextPlayOptions ==
  \/ /\ pc["a1"] = "new"
     /\ \E search \in Queries :
          Construct("a1", PlainSetup.features, PlainSetup.subs, search, PlainSetup.hintPlayer)
  \/ \E data \in FetchPayloads : FetchResponse("a1", data)
  \/ SetupThen("a1", <<>>)
  \/ CatchSetup("a1")
  \/ Validate("a1")
  \/ CatchValidate("a1")
  \/ Announce("a1")

SpecPlayOptions == Init /\ [][NextPlayOptions]_vars

\* One Application, no plugin, every config.features object.
NextFeatures ==
  \/ /\ pc["a1"] = "new"
     /\ \E input \in AllFeatureObjects :
          Construct("a1", input, PlainSetup.subs, NoQuery, PlainSetup.hintPlayer)
  \/ SetupThen("a1", <<>>)
  \/ CatchSetup("a1")
  \/ Validate("a1")
  \/ CatchValidate("a1")
  \/ Announce("a1")

SpecFeatures == Init /\ [][NextFeatures]_vars

\* One Application and no plugin: validateListeners on every setup.
NextValidate ==
  \/ /\ pc["a1"] = "new"
     /\ \E input \in AllFeatureInputs, subs \in AllListenerInputs :
          Construct("a1", input, subs, NoQuery, PlainSetup.hintPlayer)
  \/ SetupThen("a1", <<>>)
  \/ CatchSetup("a1")
  \/ Validate("a1")
  \/ CatchValidate("a1")
  \/ Announce("a1")

SpecValidate == Init /\ [][NextValidate]_vars

\* One Application and the volume and mute events of its container.
NextBridge ==
  \/ Construct("a1", PlainSetup.features, PlainSetup.subs, NoQuery, PlainSetup.hintPlayer)
  \/ \E name \in VolumeNames : \E v \in InboundPayloads(name) :
       Inbound("a1", name, v)
  \/ \E mute \in DOMAIN legacyListeners, data \in BOOLEAN :
       InboundMute("a1", mute, data)

SpecBridge == Init /\ [][NextBridge]_vars

\* One Application and no plugin, every inbound event and the mute event of
\* the sound channel at every stage of the startup chain.
NextInbound ==
  \/ Construct("a1", PlainSetup.features, PlainSetup.subs, NoQuery, PlainSetup.hintPlayer)
  \/ SetupThen("a1", <<>>)
  \/ CatchSetup("a1")
  \/ Validate("a1")
  \/ CatchValidate("a1")
  \/ Announce("a1")
  \/ \E name \in Range(events) : \E data \in InboundPayloads(name) :
       Inbound("a1", name, data)
  \/ \E data \in BOOLEAN : InboundMute("a1", "soundMuted", data)

SpecInbound == Init /\ [][NextInbound]_vars

(* --------------------------- what the claims speak of ------------------ *)

\* the hook of plugin p was invoked for the Application a
Invoked(a, hook, p) ==
  \E i \in 1..Len(calls[a]) : calls[a][i].hook = hook /\ calls[a][i].plugin = p

\* some hook invoked for a raised
HookRaised(a) == \E i \in 1..Len(calls[a]) : calls[a][i].threw

\* the plugins whose preload operation, launched for a, failed / succeeded
FailedIn(a) ==
  {preloads[a][i].plugin : i \in {j \in 1..Len(preloads[a]) :
                                    preloads[a][j].st \in {"caught", "handlerThrew"}}}
SucceededIn(a) ==
  {preloads[a][i].plugin : i \in {j \in 1..Len(preloads[a]) :
                                    preloads[a][j].st = "resolved"}}

Loaded(a) == \E i \in 1..Len(sent[a]) : sent[a][i].event = "loaded"
Ready(a) == state[a]["ready"].value = TRUE

\* the channels that need a listener: those of the enabled flags, and pause
Required(a) == {featureToStateMap[f] : f \in features[a] \cap CheckedFlags} \cup {pause}
Missing(a) == {n \in Required(a) : state[a][n].listeners = 0}

\* what validateListeners made the Application log
ValidationWarnings(a) ==
  SelectSeq(warnings[a], LAMBDA w : w.from = "validateListeners")

(* --------------------------- C1 ---------------------------------------- *)

\* C1: once 'loaded' is sent or ready is true, every channel required by an
\* enabled feature flag, and pause, has at least one listener.
C1_ListenersBeforeLoaded ==
  \A a \in Apps : (Loaded(a) \/ Ready(a)) => Missing(a) = {}

(* --------------------------- C2 ---------------------------------------- *)

\* C2: when every registered plugin has a preload hook and exactly one preload
\* fails, every other preload is launched and settles, the failing plugin's
\* init and start hooks are never invoked, and the init and start hooks of all
\* the other plugins are invoked.
C2_PreloadFailureIsolated ==
  \A a \in Apps :
    ( /\ Settled(a)
      /\ \A p \in Range(regAt[a]) : descr[p].preload
      /\ Cardinality(FailedIn(a)) = 1
      /\ ~HookRaised(a) )
    => /\ \A p \in Range(regAt[a]) \ FailedIn(a) :
            Invoked(a, "preload", p) /\ p \in SucceededIn(a)
       /\ \A p \in FailedIn(a) : ~Invoked(a, "init", p) /\ ~Invoked(a, "start", p)
       /\ \A p \in Range(regAt[a]) \ FailedIn(a) :
            /\ descr[p].init => Invoked(a, "init", p)
            /\ descr[p].start => Invoked(a, "start", p)

(* --------------------------- C3 ---------------------------------------- *)

\* uses() registered p before q (a descriptor is named by the ordinal of its
\* uses() call)
RegisteredBefore(p, q) == p < q

\* C3: init hooks run in registration order, start hooks likewise, every init
\* hook runs before every start hook, and no init or start hook runs while a
\* launched preload operation is unsettled.
C3_HookOrder ==
  \A a \in Apps :
    LET c == calls[a] IN
    /\ \A i, j \in 1..Len(c) :
         (i < j /\ c[i].hook \in {"init", "start"} /\ c[j].hook \in {"init", "start"})
         => /\ c[i].hook = c[j].hook => RegisteredBefore(c[i].plugin, c[j].plugin)
            /\ ~(c[i].hook = "start" /\ c[j].hook = "init")
    /\ (\E i \in 1..Len(c) : c[i].hook \in {"init", "start"})
         => \A k \in 1..Len(preloads[a]) : preloads[a][k].st # "pending"

\* two init hooks and two start hooks have run after the preloads of both settled
C3_Witness ==
  \E a \in Apps :
    \E p, q \in SucceededIn(a) :
      /\ p # q
      /\ Invoked(a, "init", p) /\ Invoked(a, "init", q)
      /\ Invoked(a, "start", p) /\ Invoked(a, "start", q)

(* --------------------------- C4 ---------------------------------------- *)

\* C4: a plugin without an init (or start) hook is skipped and affects no
\* other: every remaining plugin with an init hook has it invoked and every
\* remaining plugin with a start hook has it invoked.
C4_HooklessSkipped ==
  \A a \in Apps :
    (remaining[a].ran /\ ~HookRaised(a))
    => \A p \in Range(remaining[a].reg) :
         /\ descr[p].init => Invoked(a, "init", p)
         /\ descr[p].start => Invoked(a, "start", p)

(* --------------------------- C5 ---------------------------------------- *)

\* C5: a plugin without a preload hook does not block startup: the preload
\* hooks of all the other plugins are invoked and the startup goes on.
C5_NoPreloadDoesNotBlock ==
  \A a \in Apps :
    pc[a] # "new"
    => /\ \A p \in Range(regAt[a]) : descr[p].preload => Invoked(a, "preload", p)
       /\ pc[a] # "crashed"

(* --------------------------- C6 ---------------------------------------- *)

\* C6: whatever value v a volume Property holds, the mute event with payload
\* true sets it to 0 and the mute event with payload false right after
\* restores v.
C6_MuteRestores ==
  \A mute \in DOMAIN legacyListeners :
    pc["a1"] # "new"
    => LET p == state["a1"][legacyListeners[mute]]
           muted == legacyMute(p, TRUE)
           unmuted == legacyMute(muted, FALSE)
       IN  muted.value = 0 /\ unmuted.value = p.value

(* --------------------------- C7 ---------------------------------------- *)

\* C7: validateListeners raises iff an enabled flag's channel or pause has no
\* listener, and then raises one error that names exactly those channels.
C7_AggregateError ==
  \A a \in Apps :
    pc[a] \in {"announce", "done"}
    => LET w == ValidationWarnings(a) IN
       /\ Len(w) <= 1
       /\ Len(w) = 1 <=> Missing(a) # {}
       /\ Len(w) = 1 => /\ Range(w[1].missing) = Missing(a)
                        /\ Len(w[1].missing) = Cardinality(Missing(a))

\* the validator has raised one error naming pause and two other channels
C7_Witness ==
  /\ pc["a1"] = "done"
  /\ Len(ValidationWarnings("a1")) = 1
  /\ pause \in Missing("a1")
  /\ Cardinality(Missing("a1")) >= 3

(* --------------------------- C8 ---------------------------------------- *)

\* C8: after an init or start hook raises, no further hook is invoked.
C8_RaiseAborts ==
  \A a \in Apps :
    \A i, j \in 1..Len(calls[a]) : i < j => ~calls[a][i].threw

\* an init hook raised while a later plugin with an init hook remained
C8_Witness ==
  \E a \in Apps :
    \E i \in 1..Len(calls[a]) :
      /\ calls[a][i].hook = "init"
      /\ calls[a][i].threw
      /\ \E q \in Range(remaining[a].reg) :
           RegisteredBefore(calls[a][i].plugin, q) /\ descr[q].init /\ descr[q].start

(* --------------------------- C9 ---------------------------------------- *)

\* C9: when an init or start hook raises, the Application never sends
\* 'loaded' and never becomes ready.
C9_HookFailureFatal ==
  \A a \in Apps : HookRaised(a) => ~Loaded(a) /\ ~Ready(a)

(* --------------------------- C10 --------------------------------------- *)

\* C10: once an Application's preload phase has completed (its barrier opened
\* and the filter ran), a plugin whose preload
\* failed is not found by getPlugin, has no init or start hook invoked by that
\* Application and no hook invoked by an Application constructed later; a
\* plugin whose preload succeeded, and failed nowhere, is still found.
C10_FailedPluginGone ==
  \A a \in Apps :
    remaining[a].ran
    => \A p \in 1..Len(descr) :
         /\ p \in FailedIn(a)
            => /\ getPlugin(p) = NotFound
               /\ ~Invoked(a, "init", p) /\ ~Invoked(a, "start", p)
               /\ \A b \in Apps :
                    a \in doneAt[b]
                    => \A hook \in {"preload", "init", "start"} : ~Invoked(b, hook, p)
         /\ (p \in SucceededIn(a) /\ \A b \in Apps : p \notin FailedIn(b))
            => getPlugin(p) = p

(* --------------------------- C11 --------------------------------------- *)

\* the priority the descriptor named p declares
priorityOf(p) == descr[p].priority

\* C11: after any sequence of uses() calls the registry is sorted by ascending
\* priority, and each phase visits the plugins in priority order.
C11_SortedByPriority ==
  /\ \A i, j \in 1..Len(_plugins) :
       i < j => priorityOf(_plugins[i]) <= priorityOf(_plugins[j])
  /\ \A a \in Apps :
       \A i, j \in 1..Len(calls[a]) :
         (i < j /\ calls[a][i].hook = calls[a][j].hook)
         => priorityOf(calls[a][i].plugin) <= priorityOf(calls[a][j].plugin)

(* --------------------------- C12 --------------------------------------- *)

\* The value of the playOptions parameter as the URL carries it: what follows
\* the first "playOptions=" up to the "&" that ends the parameter. A "$" or
\* an "=" is part of the value, and a later "playOptions=" is the letters
\* ("p") and the "=" it is written with.
RECURSIVE parameterValue(_, _)
parameterValue(search, i) ==
  IF i > Len(search) \/ search[i] = "&" THEN <<>>
  ELSE (IF search[i] = "K" THEN <<"p", "=">> ELSE <<search[i]>>)
       \o parameterValue(search, i + 1)

\* the query string has a playOptions parameter whose value cannot be
\* URL-decoded or decodes to a text that is not JSON
Malformed(search) ==
  /\ matchStart(search) # 0
  /\ LET decoded == decodeURIComponent(
                      parameterValue(search, matchStart(search) + 1))
     IN  decoded.threw \/ JSONparse(decoded.value).threw

PlayOptionsWarnings(a) == SelectSeq(warnings[a], LAMBDA w : w.from = "playOptions")

\* C12: a malformed playOptions parameter does not raise out of the
\* constructor, is logged as exactly one warning, and leaves the playOptions
\* Property at its default (until the fetch is answered); startup goes on.
\* The constructor does not keep this: decodeURIComponent is called before
\* the try block, so a value that cannot be decoded raises out of the
\* constructor with no warning, no fetch and no startup; and the value is cut
\* at its first "=" or "$", so a value that is a JSON text up to there is
\* stored without a warning.
C12_MalformedPlayOptions ==
  \A a \in Apps :
    (pc[a] # "new" /\ Malformed(query[a]))
    => /\ pc[a] # "crashed"
       /\ Len(PlayOptionsWarnings(a)) = 1
       /\ fetching[a] # "none"
       /\ fetching[a] = "pending" => state[a]["playOptions"] = NewProperty(Obj(0))

(* --------------------------- C13 --------------------------------------- *)

\* the host gave the flag k as true
Given(a, k) == k \in DOMAIN config[a] /\ config[a][k]

\* C13: the effective flags are the given ones, absent flags being false,
\* except that sound is also true whenever vo, music or sfx is.
C13_SoundForced ==
  \A a \in Apps :
    pc[a] # "new"
    => \A k \in FeatureNames :
         k \in features[a]
         <=> \/ Given(a, k)
             \/ k = "sound" /\ (Given(a, "vo") \/ Given(a, "music") \/ Given(a, "sfx"))

\* constructed with {vo: true} alone
C13_Witness ==
  /\ pc["a1"] = "done"
  /\ config["a1"] = Flags({"vo"})
  /\ features["a1"] = {"vo", "sound"}

(* --------------------------- C14 --------------------------------------- *)

\* C14: at every stage after construction an inbound soundVolume,
\* musicVolume, voVolume, sfxVolume, captionsMuted or pause event leaves its
\* payload as the value of the property of that name, whatever the property
\* held and whether or not a legacy mute event had muted it.
C14_InboundVerbatim ==
  [][\A a \in Apps : \A name \in Range(events) :
       state'[a][name] # state[a][name]
       => \A data \in InboundPayloads(name) :
            Inbound(a, name, data) => state'[a][name].value = data]_vars

\* after 'loaded': a volume muted by soundMuted and then set to a volume
\* between 0 and 1, captions unmuted, the game paused
C14_Witness ==
  /\ pc["a1"] = "done"
  /\ state["a1"][soundVolume] = [value |-> 1, previousValue |-> <<0>>, listeners |-> 0]
  /\ state["a1"][captionsMuted].value = FALSE
  /\ state["a1"][pause].value = TRUE

(* --------------------------- C15 --------------------------------------- *)

\* connect, 'features' with the effective flags and 'keepFocus' false open
\* what a sent, and are sent once
StartupMessagesFirst(a) ==
  /\ Len(sent[a]) >= 3
  /\ sent[a][1].event = "connect"
  /\ sent[a][2] = [event |-> "features", data |-> features[a]]
  /\ sent[a][3] = [event |-> "keepFocus", data |-> {FALSE}]
  /\ \A i \in 4..Len(sent[a]) : sent[a][i].event \notin {"connect", "features", "keepFocus"}

\* the init and start phases of a have run over the plugins the filter left
PhasesRan(a) ==
  /\ remaining[a].ran
  /\ \A p \in Range(remaining[a].reg) :
       /\ descr[p].init => Invoked(a, "init", p)
       /\ descr[p].start => Invoked(a, "start", p)

\* validateListeners has run for a: what it finds missing is logged
ValidationRan(a) == Missing(a) # {} => Len(ValidationWarnings(a)) = 1

\* C15: a constructed Application has sent connect, then 'features' with the
\* effective flags, then 'keepFocus' false, each once, whatever hook was
\* invoked or inbound event handled since; and 'loaded' is sent only once the
\* init and start phases and the listener validation have run.
C15_OutboundOrder ==
  \A a \in Apps :
    pc[a] # "new"
    => /\ StartupMessagesFirst(a)
       /\ Loaded(a) => PhasesRan(a) /\ ValidationRan(a)

(* --------------------------- C16 --------------------------------------- *)

\* every preload operation launched for a has settled
AllSettled(a) == \A i \in 1..Len(preloads[a]) : preloads[a][i].st # "pending"

\* the startup chain of a still has a step to take
StartupUnderWay(a) ==
  pc[a] \in {"setup", "catchSetup", "validate", "catchValidate", "announce"}

\* C16: readiness follows the preload barrier. Once every launched preload
\* has settled the Application has sent 'loaded' and is ready, or its startup
\* chain is still under way towards it; while some launched preload has not
\* settled no init or start hook has been invoked and 'loaded' is not sent.
C16_ReadyWithBarrier ==
  \A a \in Apps :
    pc[a] # "new"
    => /\ AllSettled(a) => (Loaded(a) /\ Ready(a)) \/ StartupUnderWay(a)
       /\ ~AllSettled(a)
          => /\ ~Loaded(a)
             /\ \A p \in 1..Len(descr) : ~Invoked(a, "init", p) /\ ~Invoked(a, "start", p)

(* --------------------------- C17 --------------------------------------- *)

\* the playOptions Property as the constructor left it
PlayOptionsFromQuery(a) ==
  ConstructedState(queryPlayOptions(query[a]), PlainSetup.subs)["playOptions"]

\* C17: nothing holds back the answer to the playOptions fetch: while it is
\* outstanding it can be delivered at every stage of the startup, before and
\* after 'loaded'; once delivered its payload is the value of playOptions,
\* whatever the query string had set.
C17_FetchLastWriter ==
  \A a \in Apps :
    /\ fetching[a] = "pending"
       => \A data \in FetchPayloads : ENABLED FetchResponse(a, data)
    /\ fetching[a] = "answered"
       => state[a]["playOptions"].value \in FetchPayloads

\* 'loaded' sent, and the answer has replaced the number the query string set
C17_Witness ==
  /\ Loaded("a1")
  /\ fetching["a1"] = "answered"
  /\ PlayOptionsFromQuery("a1").value = Num(1)
  /\ state["a1"]["playOptions"].value = Obj(1)

(* --------------------------- C18 --------------------------------------- *)

\* the preload operation of plugin p failed for some Application
FailedSomewhere(p) == \E a \in Apps : p \in FailedIn(a)

\* C18: with the Applications sharing the registry and their preloads
\* settling in any order, only a plugin whose own preload failed is flagged
\* preloadFailed, only such a plugin is missing from the registry, and no
\* failure handler has raised.
C18_OnlyOwnFailureFlagged ==
  /\ \A p \in 1..Len(descr) :
       /\ preloadFailed[p] => FailedSomewhere(p)
       /\ getPlugin(p) = NotFound => FailedSomewhere(p)
  /\ \A a \in Apps : \A i \in 1..Len(preloads[a]) :
       preloads[a][i].st # "handlerThrew"

(* --------------------------- C19 --------------------------------------- *)

\* every volume Property of a holds a volume between 0 and 1
VolumesInRange(a) == \A n \in VolumeNames : state[a][n].value \in 0..One

\* C19: with volume payloads between 0 and 1, after any sequence of volume
\* events and legacy mute events every volume Property holds a volume between
\* 0 and 1, and the delivery of a mute event leaves the Properties of the
\* other channels as they were.
C19_VolumesStayInRange ==
  /\ \A a \in Apps : VolumesInRange(a)
  /\ [][\A a \in Apps :
         /\ VolumesInRange(a)'
         /\ \A mute \in DOMAIN legacyListeners : \A data \in BOOLEAN :
              InboundMute(a, mute, data)
              => \A n \in VolumeNames \ {legacyListeners[mute]} :
                   state'[a][n] = state[a][n]]_vars

\* music muted twice, vo un-muted without a mute before, sound set to a
\* volume between 0 and 1
C19_Witness ==
  /\ state["a1"][musicVolume] = [value |-> 0, previousValue |-> <<0>>, listeners |-> 0]
  /\ state["a1"][voVolume] = [value |-> One, previousValue |-> <<One>>, listeners |-> 0]
  /\ state["a1"][soundVolume].value = 1

(* --------------------------- C20 --------------------------------------- *)

\* how many times a has sent 'loaded'
LoadedCount(a) == Cardinality({i \in 1..Len(sent[a]) : sent[a][i].event = "loaded"})

AnnouncedOnce(a) ==
  /\ LoadedCount(a) <= 1
  /\ Ready(a) => Loaded(a)
  /\ Len(ValidationWarnings(a)) <= 1

\* C20: whatever hooks fail and whatever events arrive, an Application sends
\* 'loaded' at most once, is not ready before 'loaded' is sent, logs at most
\* one validation, and once ready stays ready.
C20_AnnouncedOnce ==
  /\ \A a \in Apps : AnnouncedOnce(a)
  /\ [][\A a \in Apps : AnnouncedOnce(a)' /\ (Ready(a) => Ready(a)')]_vars

\* ready after a hook raised and the validation failed, an event having
\* paused the game since
C20_Witness ==
  /\ Ready("a1") /\ LoadedCount("a1") = 1
  /\ HookRaised("a1")
  /\ Len(ValidationWarnings("a1")) = 1
  /\ state["a1"][pause] = [value |-> FALSE, previousValue |-> <<TRUE>>, listeners |-> 0]

====
